---- MODULE Spec2Model ----
(***************************************************************************)
(* Model of the sleep-sound player: the App component (src/App.tsx) with   *)
(* its play/stop handlers and sleep timer, the NoiseGenerator singleton    *)
(* (src/services/noiseGenerator.ts) with its Web Audio graph and gain      *)
(* automation, and the speech-synthesis queue the App drives.              *)
(*                                                                         *)
(* Time is counted in whole seconds.  Pending timers carry the time left   *)
(* until they are due; Advance lets one second pass and is enabled only    *)
(* when no timer is due, so timers fire on time.  Volumes and gains are    *)
(* integers in hundredths (the slider's step, 0.01).                       *)
(***************************************************************************)
EXTENDS Integers, Sequences, FiniteSets

VARIABLES
  isPlaying,      \* App state isPlaying
  envVolume,      \* App state envVolume, in hundredths
  selectedNoise,  \* App state selectedNoise
  timerDuration,  \* App state timerDuration, minutes
  remainingTime,  \* App state remainingTime: NULL or <<seconds>>
  timerRef,       \* the interval set by the timer effect: NULL or <<seconds until its callback>>
  storyText,      \* App state storyText
  isGenerating,   \* App state isGenerating
  storyRequest,   \* whether a generateSleepStory call awaited by handleGenerate is in flight
  audio,          \* noiseService's fields and the audio graph they refer to
  timeouts,       \* pending setTimeout callbacks, in the order they were registered
  utterance,      \* the speech queue: 0 when silent, else the play call that submitted the utterance
  calls,          \* noiseService.play calls suspended at `await audioContext.resume()`
  plays,          \* number of noiseService.play calls made so far
  fading,         \* whether the last noise-channel command that took effect was a stop with fade
  ticks,          \* interval callbacks run since the countdown was last started
  noise           \* one createNoiseBuffer call: its loop position, its locals and its buffer

vars == <<isPlaying, envVolume, selectedNoise, timerDuration, remainingTime, timerRef,
          storyText, isGenerating, storyRequest, audio, timeouts, utterance, calls, plays,
          fading, ticks, noise>>

\* the App's state and the audio graph, without the buffer under construction
appVars == <<isPlaying, envVolume, selectedNoise, timerDuration, remainingTime, timerRef,
             storyText, isGenerating, storyRequest, audio, timeouts, utterance, calls, plays,
             fading, ticks>>

-----------------------------------------------------------------------------
(* Bounds of the model *)

\* noiseService.play may be called at most this many times in one run
MaxPlays == 3
\* the timer slider is moved at most this many steps above its minimum
MaxTimerSteps == 0
\* at most this many noiseService.play calls wait for resume() at once
MaxCalls == 2
\* the largest sample rate of the audio context (samples per second)
MaxSampleRate == 32
\* within one createNoiseBuffer call the drawn random value changes at most this often
MaxSwitches == 1

(* Constants of the program *)

SecondsPerMinute == 60
FadeOutSeconds == 3
CancelDelaySeconds == 3
FadeInSeconds == 1
IntervalSeconds == 1
InitialTimerDuration == 15
MinTimerDuration == 5
TimerStep == 5
MaxTimerDuration == 60
InitialEnvVolume == 50
DefaultGain == 100

NULL == <<>>
NoNode == 0

AudioType == {"BROWN_NOISE", "PINK_NOISE", "WHITE_NOISE"}

\* the values the environment-volume slider is moved to
Volumes == {20, InitialEnvVolume}

\* the values the timer slider is moved to
Durations == {MinTimerDuration + TimerStep * k : k \in 0..MaxTimerSteps}

-----------------------------------------------------------------------------
(* AudioParam automation of the current gain node.  audio.value is the      *)
(* gain now; audio.events are the scheduled events [kind, v, at] with `at`  *)
(* the seconds from now (0: at or before now).  Of the events at or before  *)
(* now only the latest is kept: it is the one in effect.                    *)

\* events with a time at or before now
Past(events) == SelectSeq(events, LAMBDA e : e.at = 0)

\* events with a time later than now
Future(events) == SelectSeq(events, LAMBDA e : e.at > 0)

\* AudioParam.cancelScheduledValues(currentTime): events later than now are removed
cancelScheduledValues(a) == [a EXCEPT !.events = Past(@)]

\* AudioParam.setValueAtTime(v, currentTime)
setValueAtTime(a, v) ==
  [a EXCEPT !.value = v,
            !.events = <<[kind |-> "set", v |-> v, at |-> 0]>> \o Future(@)]

\* AudioParam.linearRampToValueAtTime(v, currentTime + d)
linearRampToValueAtTime(a, v, d) ==
  [a EXCEPT !.events = SelectSeq(@, LAMBDA e : e.at <= d)
                       \o <<[kind |-> "ramp", v |-> v, at |-> d]>>
                       \o SelectSeq(@, LAMBDA e : e.at > d)]

\* AudioParam.setTargetAtTime(v, currentTime, 0.1)
setTargetAtTime(a, v) ==
  [a EXCEPT !.events = <<[kind |-> "target", v |-> v, at |-> 0]>> \o Future(@)]

\* the gain one second from now: a pending ramp moves it linearly towards its end
\* value, whatever was scheduled before the ramp's end; with no later event, an
\* exponential approach started now or before has settled (time constant 0.1 s);
\* otherwise the value holds
GainAfterSecond(a) ==
  LET fut == Future(a.events)
      cur == Past(a.events)
  IN  IF fut # <<>>
      THEN IF fut[1].kind = "ramp"
           THEN a.value + ((fut[1].v - a.value) \div fut[1].at)
           ELSE a.value
      ELSE IF cur # <<>> /\ cur[Len(cur)].kind = "target"
           THEN cur[Len(cur)].v
           ELSE a.value

\* the events still ahead one second from now
EventsAfterSecond(events) ==
  LET fut == Future(events)
      shifted == [i \in 1..Len(fut) |-> [fut[i] EXCEPT !.at = @ - 1]]
  IN  Future(shifted)

\* the audio clock moves on by one second
AudioAfterSecond(a) ==
  [a EXCEPT !.value = GainAfterSecond(a), !.events = EventsAfterSecond(a.events)]

-----------------------------------------------------------------------------
(* NoiseGenerator *)

\* the guard of stop(): a source, a gain node and a context exist
CanStop(a) == a.sourceNode # NoNode /\ a.gainNode # NoNode /\ a.audioContext # "none"

\* sourceNode.stop(); sourceNode.disconnect(); sourceNode = null (its buffer goes with it)
HaltSource(a) ==
  IF a.sourceNode = NoNode THEN a
  ELSE [a EXCEPT !.started = @ \ {a.sourceNode},
                 !.connected = @ \ {a.sourceNode},
                 !.buffer = "none",
                 !.sourceNode = NoNode]

\* stop() whose fade-out ramp ends a second after the halt it schedules
NoiseStop_LateRamp(a, fadeOutSeconds) ==
  IF CanStop(a)
  THEN IF fadeOutSeconds > 0
       THEN linearRampToValueAtTime(setValueAtTime(cancelScheduledValues(a), a.value),
                                    0, fadeOutSeconds + 1)
       ELSE HaltSource(a)
  ELSE a

\* NoiseGenerator.stop(fadeOutSeconds), apart from the timeout it registers
NoiseStop(a, fadeOutSeconds) ==
  IF CanStop(a)
  THEN IF fadeOutSeconds > 0
       THEN linearRampToValueAtTime(setValueAtTime(cancelScheduledValues(a), a.value),
                                    0, fadeOutSeconds)
       ELSE HaltSource(a)
  ELSE a

\* a stop() that registers no timeout to halt the source after the fade
NoiseStopTimeouts_NoHalt(a, fadeOutSeconds, by) == <<>>

\* the timeouts NoiseGenerator.stop(fadeOutSeconds) registers; `by` is the number of
\* play calls made when it is registered
NoiseStopTimeouts(a, fadeOutSeconds, by) ==
  IF CanStop(a) /\ fadeOutSeconds > 0
  THEN <<[kind |-> "halt", left |-> fadeOutSeconds, by |-> by]>>
  ELSE <<>>

\* play() that does not stop the previous source first
NoisePlay_NoStop(a, id, type, volume) ==
  LET wired == [a EXCEPT !.sourceNode = id,
                         !.buffer = type,
                         !.gainNode = id,
                         !.connected = @ \cup {id},
                         !.destination = @ \cup {id},
                         !.value = DefaultGain,
                         !.events = <<>>]
      faded == linearRampToValueAtTime(setValueAtTime(wired, 0), volume, FadeInSeconds)
  IN  [faded EXCEPT !.started = @ \cup {id}]

\* NoiseGenerator.play(type, volume) from `this.stop()` on; id names the nodes created
NoisePlay(a, id, type, volume) ==
  LET stopped == NoiseStop(a, 0)
      wired == [stopped EXCEPT !.sourceNode = id,
                               !.buffer = type,
                               !.gainNode = id,
                               !.connected = @ \cup {id},
                               !.destination = @ \cup {id},
                               !.value = DefaultGain,
                               !.events = <<>>]
      faded == linearRampToValueAtTime(setValueAtTime(wired, 0), volume, FadeInSeconds)
  IN  [faded EXCEPT !.started = @ \cup {id}]

\* NoiseGenerator.setVolume(volume)
NoiseSetVolume(a, volume) ==
  IF a.gainNode # NoNode /\ a.audioContext # "none"
  THEN setTargetAtTime(a, volume)
  ELSE a

\* the source nodes that are started and connected, through their gain node, to the destination
LiveSources(a) == {s \in a.started : s \in a.connected /\ s \in a.destination}

-----------------------------------------------------------------------------
(* NoiseGenerator.createNoiseBuffer, one loop iteration per step.  Samples   *)
(* and filter states are fixed-point numbers, Unit for 1.0 (the code computes *)
(* in floating point).  Math.random() * 2 - 1 is drawn from WhiteSteps, in    *)
(* units of 1 / WhiteDen; within one call the drawn value changes at most     *)
(* MaxSwitches times from one draw to the next.                               *)

\* the fixed-point representation of 1.0
Unit == 10000000
\* white inputs are multiples of 1 / WhiteDen
WhiteDen == 2
\* the values of Math.random() * 2 - 1 drawn: -1, 0 and 0.5
WhiteSteps == {-2, 0, 1}

SampleRates == {MaxSampleRate \div 4, MaxSampleRate}

\* floor(x * c / d), computed without leaving the 32-bit range
MulDiv(x, c, d) == (x \div d) * c + ((x % d) * c) \div d

\* white * c, for a coefficient c given in fixed point
WhiteTerm(white, c) == (white * c) \div WhiteDen

\* bufferSize = ctx.sampleRate * 2
BufferSize(n) == n.sampleRate * 2

NoFilter == [b0 |-> 0, b1 |-> 0, b2 |-> 0, b3 |-> 0, b4 |-> 0, b5 |-> 0, b6 |-> 0]

\* no createNoiseBuffer call under way
NoBuffer ==
  [pc |-> "none", type |-> "none", sampleRate |-> 0, i |-> 0, data |-> <<>>,
   held |-> 0, switches |-> 0, lastOut |-> 0, b |-> NoFilter, whites |-> <<>>]

\* createNoiseBuffer(type) up to its first loop: createBuffer gives bufferSize zeros
NewBuffer(type, sampleRate, held) ==
  [NoBuffer EXCEPT !.pc = "first", !.type = type, !.sampleRate = sampleRate,
                   !.data = [k \in 1..(sampleRate * 2) |-> 0], !.held = held]

\* the values the next Math.random() * 2 - 1 may take
Draws(n) == {w \in WhiteSteps : w = n.held \/ n.switches < MaxSwitches}

\* the call after the draw of w
Drawn(n, w) ==
  [n EXCEPT !.held = w, !.switches = IF w = n.held THEN @ ELSE @ + 1]

\* data[i] of the first loop: white; softened white from a second draw r (pink);
\* one step of the integrator from lastOut = 0 (brown)
FirstLoopSample(type, white, r) ==
  IF type = "WHITE_NOISE" THEN WhiteTerm(white, Unit)
  ELSE IF type = "PINK_NOISE" THEN MulDiv(WhiteTerm(r, Unit), 5, 10)
  ELSE MulDiv(MulDiv(0 + WhiteTerm(white, 200000), 100, 102), 35, 10)

\* one iteration of the brown loop: data[i] = (lastOut + 0.02 * white) / 1.02;
\* lastOut = data[i]; data[i] *= 3.5
BrownStep(n, white) ==
  LET out == MulDiv(n.lastOut + WhiteTerm(white, 200000), 100, 102)
  IN  [n EXCEPT !.lastOut = out, !.data[n.i + 1] = MulDiv(out, 35, 10),
                !.i = @ + 1, !.whites = Append(@, white)]

\* the pink filter states b0..b5 after the input white
PinkFilter(b, white) ==
  [b EXCEPT !.b0 = (b.b0 - MulDiv(b.b0, 114, 100000)) + WhiteTerm(white, 555179),
            !.b1 = (b.b1 - MulDiv(b.b1, 668, 100000)) + WhiteTerm(white, 750759),
            !.b2 = (b.b2 - MulDiv(b.b2, 31, 1000)) + WhiteTerm(white, 1538520),
            !.b3 = (b.b3 - MulDiv(b.b3, 1335, 10000)) + WhiteTerm(white, 3104856),
            !.b4 = MulDiv(b.b4, 55, 100) + WhiteTerm(white, 5329522),
            !.b5 = (0 - MulDiv(b.b5, 7616, 10000)) - WhiteTerm(white, 168980)]

\* a pink iteration that sets b6 before it computes the sample
PinkStep_EarlyB6(n, white) ==
  LET b == [PinkFilter(n.b, white) EXCEPT !.b6 = WhiteTerm(white, 1159260)]
      sum == b.b0 + b.b1 + b.b2 + b.b3 + b.b4 + b.b5 + b.b6 + WhiteTerm(white, 5362000)
  IN  [n EXCEPT !.b = b, !.data[n.i + 1] = MulDiv(sum, 11, 100),
                !.i = @ + 1, !.whites = Append(@, white)]

\* one iteration of the pink loop: b0..b5 updated; data[i] = b0 + ... + b5 + b6 +
\* white * 0.5362; data[i] *= 0.11; b6 = white * 0.115926
PinkStep(n, white) ==
  LET b == PinkFilter(n.b, white)
      sum == b.b0 + b.b1 + b.b2 + b.b3 + b.b4 + b.b5 + b.b6 + WhiteTerm(white, 5362000)
  IN  [n EXCEPT !.b = [b EXCEPT !.b6 = WhiteTerm(white, 1159260)],
                !.data[n.i + 1] = MulDiv(sum, 11, 100),
                !.i = @ + 1, !.whites = Append(@, white)]

\* an iteration of the first loop (all types)
FirstLoop ==
  /\ noise.pc = "first"
  /\ noise.i < BufferSize(noise)
  /\ \E white \in Draws(noise) :
       \E r \in (IF noise.type = "PINK_NOISE" THEN Draws(Drawn(noise, white)) ELSE {white}) :
         noise' = [Drawn(Drawn(noise, white), r) EXCEPT
                     !.data[noise.i + 1] = FirstLoopSample(noise.type, white, r),
                     !.i = @ + 1]
  /\ UNCHANGED appVars

\* the first loop is over: the brown or the pink loop begins with its locals at 0
StartSecondLoop ==
  /\ noise.pc = "first"
  /\ noise.i = BufferSize(noise)
  /\ noise.type # "WHITE_NOISE"
  /\ noise' = [noise EXCEPT !.pc = "second", !.i = 0, !.lastOut = 0, !.b = NoFilter]
  /\ UNCHANGED appVars

\* an iteration of the brown or of the pink loop
SecondLoop ==
  /\ noise.pc = "second"
  /\ noise.i < BufferSize(noise)
  /\ \E white \in Draws(noise) :
       noise' = IF noise.type = "BROWN_NOISE"
                THEN BrownStep(Drawn(noise, white), white)
                ELSE PinkStep(Drawn(noise, white), white)
  /\ UNCHANGED appVars

\* return buffer
ReturnBuffer ==
  /\ noise.i = BufferSize(noise)
  /\ \/ noise.pc = "first" /\ noise.type = "WHITE_NOISE"
     \/ noise.pc = "second"
  /\ noise' = [noise EXCEPT !.pc = "done"]
  /\ UNCHANGED appVars

-----------------------------------------------------------------------------
(* App: the sleep timer *)

\* the timer effect (deps remainingTime, isPlaying) after a render with the new values
\* rt and ip: when a dependency changed, the old interval is cleared and a new one set
\* if a countdown is running; `cleared` tells that the handler itself cleared timerRef
TimerEffect(rt, ip, cleared) ==
  IF rt # remainingTime \/ ip # isPlaying
  THEN IF rt # NULL /\ ip THEN <<IntervalSeconds>> ELSE NULL
  ELSE IF cleared THEN NULL ELSE timerRef

\* startTimer(): the value it gives remainingTime, for the duration its closure holds
startTimer(duration) == <<duration * SecondsPerMinute>>

\* stopTimer(): the value it gives remainingTime
stopTimer == NULL

-----------------------------------------------------------------------------
(* App: stop *)

\* handleStop that cancels the speech in a timeout with no delay
StopTimeouts_NoDelay(a, fadeOut) ==
  IF fadeOut
  THEN NoiseStopTimeouts(a, FadeOutSeconds, plays)
       \o <<[kind |-> "cancel", left |-> 0, by |-> plays]>>
  ELSE NoiseStopTimeouts(a, 0, plays)

\* the timeouts handleStop(fadeOut) leaves pending: the noise channel's halt, then
\* the deferred speech cancel
StopTimeouts(a, fadeOut) ==
  IF fadeOut
  THEN NoiseStopTimeouts(a, FadeOutSeconds, plays)
       \o <<[kind |-> "cancel", left |-> CancelDelaySeconds, by |-> plays]>>
  ELSE NoiseStopTimeouts(a, 0, plays)

\* handleStop that leaves the interval running
handleStop_KeepsInterval(fadeOut) ==
  /\ isPlaying' = FALSE
  /\ remainingTime' = stopTimer
  /\ timerRef' = timerRef
  /\ ticks' = 0
  /\ audio' = NoiseStop(audio, IF fadeOut THEN FadeOutSeconds ELSE 0)
  /\ timeouts' = timeouts \o StopTimeouts(audio, fadeOut)
  /\ utterance' = IF fadeOut THEN utterance ELSE 0
  /\ fading' = IF CanStop(audio) THEN fadeOut ELSE fading
  /\ UNCHANGED <<envVolume, selectedNoise, timerDuration, storyText, isGenerating, storyRequest, noise, calls, plays>>

\* handleStop(fadeOut)
handleStop(fadeOut) ==
  /\ isPlaying' = FALSE
  /\ remainingTime' = stopTimer
  /\ timerRef' = TimerEffect(stopTimer, FALSE, TRUE)
  /\ ticks' = 0
  /\ audio' = NoiseStop(audio, IF fadeOut THEN FadeOutSeconds ELSE 0)
  /\ timeouts' = timeouts \o StopTimeouts(audio, fadeOut)
  /\ utterance' = IF fadeOut THEN utterance ELSE 0
  /\ fading' = IF CanStop(audio) THEN fadeOut ELSE fading
  /\ UNCHANGED <<envVolume, selectedNoise, timerDuration, storyText, isGenerating, storyRequest, noise, calls, plays>>

\* an interval callback that expires only below zero
Tick_LateExpiry ==
  /\ timerRef = <<0>>
  /\ IF remainingTime = NULL \/ remainingTime[1] < 0
     THEN handleStop(TRUE)
     ELSE /\ remainingTime' = <<remainingTime[1] - 1>>
          /\ timerRef' = TimerEffect(<<remainingTime[1] - 1>>, isPlaying, FALSE)
          /\ ticks' = ticks + 1
          /\ UNCHANGED <<isPlaying, envVolume, selectedNoise, timerDuration, storyText,
                         isGenerating, storyRequest, noise, audio, timeouts, utterance, calls, plays, fading>>

\* the interval callback: setRemainingTime(prev => ...)
Tick ==
  /\ timerRef = <<0>>
  /\ IF remainingTime = NULL \/ remainingTime[1] <= 0
     THEN handleStop(TRUE)
     ELSE /\ remainingTime' = <<remainingTime[1] - 1>>
          /\ timerRef' = TimerEffect(<<remainingTime[1] - 1>>, isPlaying, FALSE)
          /\ ticks' = ticks + 1
          /\ UNCHANGED <<isPlaying, envVolume, selectedNoise, timerDuration, storyText,
                         isGenerating, storyRequest, noise, audio, timeouts, utterance, calls, plays, fading>>

-----------------------------------------------------------------------------
(* App: play *)

\* initContext() and the state the context is found in: a context that does not exist
\* yet is created running or suspended, or the constructor throws ("none")
initContext(a) ==
  IF a.audioContext = "none" THEN {"running", "suspended", "none"} ELSE {a.audioContext}

\* resumed play calls none of which stops the source of the call before it
RECURSIVE ResumedPlays_NoStop(_, _)
ResumedPlays_NoStop(a, cs) ==
  IF cs = <<>> THEN a
  ELSE ResumedPlays_NoStop(NoisePlay_NoStop(a, Head(cs).id, Head(cs).type, Head(cs).volume),
                           Tail(cs))

\* NoiseGenerator.play after `await resume()` for each suspended call, in call order
RECURSIVE ResumedPlays(_, _)
ResumedPlays(a, cs) ==
  IF cs = <<>> THEN a
  ELSE ResumedPlays(NoisePlay(a, Head(cs).id, Head(cs).type, Head(cs).volume), Tail(cs))

\* speakStory(text) for each handlePlay in cs, in order: cancel the queue, speak
speakStory(cs) ==
  LET spoken == SelectSeq(cs, LAMBDA c : c.text # "")
  IN  IF spoken = <<>> THEN utterance ELSE spoken[Len(spoken)].id

\* a handlePlay continuation that does not start the timer
PlayContinues_NoTimer(cs) ==
  IF cs = <<>>
  THEN UNCHANGED <<utterance, remainingTime, isPlaying, timerRef, ticks>>
  ELSE /\ utterance' = speakStory(cs)
       /\ remainingTime' = remainingTime
       /\ isPlaying' = TRUE
       /\ timerRef' = TimerEffect(remainingTime, TRUE, FALSE)
       /\ ticks' = 0

\* handlePlay after `await noiseService.play(...)`, for the handlePlay calls cs that
\* continue in this task: steps 2 (story) and 3 (timer, isPlaying)
PlayContinues(cs) ==
  IF cs = <<>>
  THEN UNCHANGED <<utterance, remainingTime, isPlaying, timerRef, ticks>>
  ELSE /\ utterance' = speakStory(cs)
       /\ remainingTime' = startTimer(cs[Len(cs)].duration)
       /\ isPlaying' = TRUE
       /\ timerRef' = TimerEffect(startTimer(cs[Len(cs)].duration), TRUE, TRUE)
       /\ ticks' = 0

\* a call of noiseService.play(type, volume) made by `kind` with the values its closure holds
NewCall(kind, type, volume) ==
  [kind |-> kind, id |-> plays + 1, type |-> type, volume |-> volume,
   text |-> storyText, duration |-> timerDuration]

\* noiseService.play(...) is called: it runs to its end (created or thrown) or
\* suspends at `await resume()`; then the caller's continuation runs
CallPlay(call) ==
  /\ plays < MaxPlays
  /\ plays' = plays + 1
  /\ \E o \in initContext(audio) :
       IF o = "suspended"
       THEN /\ Len(calls) < MaxCalls
            /\ audio' = [audio EXCEPT !.audioContext = o]
            /\ calls' = Append(calls, call)
            /\ UNCHANGED <<fading, utterance, remainingTime, isPlaying, timerRef, ticks>>
       ELSE /\ audio' = IF o = "running"
                        THEN NoisePlay([audio EXCEPT !.audioContext = o],
                                       call.id, call.type, call.volume)
                        ELSE audio
            /\ fading' = IF o = "running" THEN FALSE ELSE fading
            /\ calls' = calls
            /\ PlayContinues(IF call.kind = "handlePlay" THEN <<call>> ELSE <<>>)

\* handlePlay whose toggle-off fades out
handlePlay_FadesOut ==
  IF isPlaying
  THEN handleStop(TRUE)
  ELSE /\ CallPlay(NewCall("handlePlay", selectedNoise, envVolume))
       /\ UNCHANGED <<envVolume, selectedNoise, timerDuration, storyText, isGenerating, storyRequest, noise, timeouts>>

\* handlePlay()
handlePlay ==
  IF isPlaying
  THEN handleStop(FALSE)
  ELSE /\ CallPlay(NewCall("handlePlay", selectedNoise, envVolume))
       /\ UNCHANGED <<envVolume, selectedNoise, timerDuration, storyText, isGenerating, storyRequest, noise, timeouts>>

\* the promises of audioContext.resume() settle, all in one task: the suspended
\* play calls run on in call order, then the handlePlay calls among them
ResumeSettles ==
  /\ calls # <<>>
  /\ \E ok \in BOOLEAN :
       /\ audio' = IF ok THEN ResumedPlays([audio EXCEPT !.audioContext = "running"], calls)
                   ELSE audio
       /\ fading' = IF ok THEN FALSE ELSE fading
  /\ PlayContinues(SelectSeq(calls, LAMBDA c : c.kind = "handlePlay"))
  /\ calls' = <<>>
  /\ UNCHANGED <<envVolume, selectedNoise, timerDuration, storyText, isGenerating, storyRequest, noise, timeouts, plays>>

-----------------------------------------------------------------------------
(* App: settings *)

\* the environment slider moves to v; the envVolume effect calls noiseService.setVolume
SetEnvVolume ==
  \E v \in Volumes \ {envVolume} :
    /\ envVolume' = v
    /\ audio' = NoiseSetVolume(audio, v)
    /\ fading' = IF audio' # audio THEN FALSE ELSE fading
    /\ UNCHANGED <<isPlaying, selectedNoise, timerDuration, remainingTime, timerRef, storyText,
                   isGenerating, storyRequest, noise, timeouts, utterance, calls, plays, ticks>>

\* a noise type is chosen; while playing, the selectedNoise effect calls noiseService.play
SetSelectedNoise ==
  \E t \in AudioType \ {selectedNoise} :
    /\ selectedNoise' = t
    /\ IF isPlaying
       THEN CallPlay(NewCall("effect", t, envVolume))
       ELSE UNCHANGED <<audio, calls, plays, fading, utterance, remainingTime, isPlaying,
                        timerRef, ticks>>
    /\ UNCHANGED <<envVolume, timerDuration, storyText, isGenerating, storyRequest, noise, timeouts>>

\* the `disabled` attribute of the timer slider
TimerInputDisabled == isPlaying /\ remainingTime # NULL

\* a timer slider that is never disabled
SetTimerDuration_AlwaysEnabled ==
  /\ \E m \in Durations \ {timerDuration} : timerDuration' = m
  /\ UNCHANGED <<isPlaying, envVolume, selectedNoise, remainingTime, timerRef, storyText,
                 isGenerating, storyRequest, noise, audio, timeouts, utterance, calls, plays, fading, ticks>>

\* the timer slider moves; it is disabled while a countdown runs
SetTimerDuration ==
  /\ ~TimerInputDisabled
  /\ \E m \in Durations \ {timerDuration} : timerDuration' = m
  /\ UNCHANGED <<isPlaying, envVolume, selectedNoise, remainingTime, timerRef, storyText,
                 isGenerating, storyRequest, noise, audio, timeouts, utterance, calls, plays, fading, ticks>>

\* what the Gemini client does for one call: the client cannot be constructed, the
\* request returns text, returns no text, or fails
StoryOutcomes == {"client throws", "text", "empty text", "request fails"}

\* generateSleepStory(config) for one outcome of the client: the promise is rejected
\* when getClient() throws (it runs before the try), else resolved with the response
\* text, the replacement for an empty text, or the catch block's message
generateSleepStory(outcome) ==
  IF outcome = "client throws" THEN [rejected |-> TRUE, value |-> ""]
  ELSE IF outcome = "text" THEN [rejected |-> FALSE, value |-> "story"]
  ELSE IF outcome = "empty text" THEN [rejected |-> FALSE, value |-> "night is deep"]
  ELSE [rejected |-> FALSE, value |-> "try again later"]

\* handleGenerate() up to `await generateSleepStory(...)`; the button is disabled while generating
handleGenerate ==
  /\ ~isGenerating
  /\ isGenerating' = TRUE
  /\ storyText' = ""
  /\ storyRequest' = TRUE
  /\ UNCHANGED <<isPlaying, envVolume, selectedNoise, timerDuration, remainingTime, timerRef,
                 audio, timeouts, utterance, calls, plays, fading, ticks, noise>>

\* the promise of generateSleepStory settles: resolved, handleGenerate runs on and
\* stores the story; rejected, handleGenerate ends there
GenerateSettles ==
  /\ storyRequest
  /\ storyRequest' = FALSE
  /\ \E outcome \in StoryOutcomes :
       LET story == generateSleepStory(outcome)
       IN  IF story.rejected
           THEN UNCHANGED <<storyText, isGenerating>>
           ELSE storyText' = story.value /\ isGenerating' = FALSE
  /\ UNCHANGED <<isPlaying, envVolume, selectedNoise, timerDuration, remainingTime, timerRef,
                 audio, timeouts, utterance, calls, plays, fading, ticks, noise>>

-----------------------------------------------------------------------------
(* Timers, speech and time *)

\* the timeout registered first runs when it is due
FireTimeout ==
  /\ timeouts # <<>>
  /\ Head(timeouts).left = 0
  /\ timeouts' = Tail(timeouts)
  /\ IF Head(timeouts).kind = "halt"
     THEN audio' = HaltSource(audio) /\ utterance' = utterance
     ELSE audio' = audio /\ utterance' = 0
  /\ UNCHANGED <<isPlaying, envVolume, selectedNoise, timerDuration, remainingTime, timerRef,
                 storyText, isGenerating, storyRequest, noise, calls, plays, fading, ticks>>

\* the utterance is spoken to its end
UtteranceEnds ==
  /\ utterance # 0
  /\ utterance' = 0
  /\ UNCHANGED <<isPlaying, envVolume, selectedNoise, timerDuration, remainingTime, timerRef,
                 storyText, isGenerating, storyRequest, noise, audio, timeouts, calls, plays, fading, ticks>>

\* a second passes; no timer is overdue
Advance ==
  /\ timerRef # <<0>>
  /\ \A i \in 1..Len(timeouts) : timeouts[i].left > 0
  /\ timerRef' = IF timerRef = NULL THEN NULL ELSE <<timerRef[1] - 1>>
  /\ timeouts' = [i \in 1..Len(timeouts) |-> [timeouts[i] EXCEPT !.left = @ - 1]]
  /\ audio' = AudioAfterSecond(audio)
  /\ UNCHANGED <<isPlaying, envVolume, selectedNoise, timerDuration, remainingTime, storyText,
                 isGenerating, storyRequest, noise, utterance, calls, plays, fading, ticks>>

-----------------------------------------------------------------------------

InitApp ==
  /\ isPlaying = FALSE
  /\ envVolume = InitialEnvVolume
  /\ selectedNoise = "PINK_NOISE"
  /\ timerDuration = InitialTimerDuration
  /\ remainingTime = NULL
  /\ timerRef = NULL
  /\ storyText = ""
  /\ isGenerating = FALSE
  /\ storyRequest = FALSE
  /\ audio = [audioContext |-> "none", gainNode |-> NoNode, sourceNode |-> NoNode,
              buffer |-> "none", started |-> {}, connected |-> {}, destination |-> {},
              value |-> 0, events |-> <<>>]
  /\ timeouts = <<>>
  /\ utterance = 0
  /\ calls = <<>>
  /\ plays = 0
  /\ fading = FALSE
  /\ ticks = 0

Init == InitApp /\ noise = NoBuffer

\* the session controls: play/stop, the story, the timer slider
Next ==
  \/ handlePlay
  \/ ResumeSettles
  \/ Tick
  \/ FireTimeout
  \/ Advance
  \/ UtteranceEnds
  \/ SetTimerDuration
  \/ handleGenerate
  \/ GenerateSettles

Spec == Init /\ [][Next]_vars

\* the noise-channel controls: play/stop, the environment volume, the noise type
MixerNext ==
  \/ handlePlay
  \/ ResumeSettles
  \/ Tick
  \/ FireTimeout
  \/ Advance
  \/ SetEnvVolume
  \/ SetSelectedNoise

SpecMixer == Init /\ [][MixerNext]_vars

\* one session left to itself: the user may set the timer and ask for a story,
\* presses play once and issues no command after that; the interval, the timeouts
\* and the clock are never held up for ever
SessionNext ==
  \/ plays = 0 /\ SetTimerDuration
  \/ plays = 0 /\ handleGenerate
  \/ GenerateSettles
  \/ plays = 0 /\ handlePlay
  \/ ResumeSettles
  \/ Tick
  \/ FireTimeout
  \/ Advance
  \/ UtteranceEnds

SpecSession ==
  /\ Init
  /\ [][SessionNext]_vars
  /\ WF_vars(Tick)
  /\ WF_vars(FireTimeout)
  /\ WF_vars(Advance)

\* one createNoiseBuffer call, for each noise type, sample rate and first random value
InitNoise ==
  /\ InitApp
  /\ \E type \in AudioType, sampleRate \in SampleRates, held \in WhiteSteps :
       noise = NewBuffer(type, sampleRate, held)

NoiseNext ==
  \/ FirstLoop
  \/ StartSecondLoop
  \/ SecondLoop
  \/ ReturnBuffer

SpecNoise == InitNoise /\ [][NoiseNext]_vars

-----------------------------------------------------------------------------
(* Properties *)

\* the state of the noise channel (spec 4.2): IDLE before the first start, STARTING
\* while the fade-in runs, PLAYING, FADING while a stop with fade issued for the
\* current source is pending, STOPPED after the source was halted
ChannelState ==
  IF audio.sourceNode = NoNode
  THEN IF audio.gainNode = NoNode THEN "IDLE" ELSE "STOPPED"
  ELSE IF \E i \in 1..Len(timeouts) :
            timeouts[i].kind = "halt" /\ timeouts[i].by >= audio.sourceNode
       THEN "FADING"
       ELSE IF Future(audio.events) # <<>> THEN "STARTING" ELSE "PLAYING"

\* the interval callback that finds the countdown at zero
Expiry == Tick /\ (remainingTime = NULL \/ remainingTime[1] <= 0)

\* the pending timeouts of one kind
Pending(ts, kind) == SelectSeq(ts, LAMBDA t : t.kind = kind)

\* C1: when the halt scheduled by a fade-out comes due after a later start, the
\* source that start created stays live (the halt does not stop or disconnect it)
C1_FadeHaltSparesNewSource ==
  [][(FireTimeout /\ Head(timeouts).kind = "halt" /\ audio.sourceNode > Head(timeouts).by)
       => audio.sourceNode \in LiveSources(audio')]_vars

\* C2: when the speech cancel deferred by a fade-out stop comes due after a later
\* play() has submitted an utterance, that utterance is not cancelled
C2_DeferredCancelSparesNewUtterance ==
  [][(FireTimeout /\ Head(timeouts).kind = "cancel" /\ utterance > Head(timeouts).by)
       => utterance' = utterance]_vars

\* C3: the (d*60)-th tick of a countdown started from the configured duration d is
\* the expiry: it leaves remainingTime null and isPlaying false
C3_ExpiryOnLastTick ==
  [][(Tick /\ remainingTime # NULL
           /\ remainingTime[1] + ticks = timerDuration * SecondsPerMinute
           /\ ticks + 1 = timerDuration * SecondsPerMinute)
       => (remainingTime' = NULL /\ ~isPlaying')]_vars

\* C4: the expiry stops the session once: isPlaying false, countdown cleared, no
\* interval left to tick again; the noise channel gets one stop(3) (a ramp to 0 over
\* 3 s and one halt due in 3 s, if a source is there) and exactly one speech cancel
\* is registered, due in 3 s, the utterance untouched until then; and an interval
\* exists only while a session with a countdown runs
C4_ExpiryStopsOnce ==
  /\ [](timerRef # NULL => (isPlaying /\ remainingTime # NULL))
  /\ [][Expiry =>
          /\ ~isPlaying' /\ remainingTime' = NULL /\ timerRef' = NULL
          /\ utterance' = utterance
          /\ Pending(timeouts', "cancel")
               = Pending(timeouts, "cancel")
                 \o <<[kind |-> "cancel", left |-> CancelDelaySeconds, by |-> plays]>>
          /\ Pending(timeouts', "halt")
               = Pending(timeouts, "halt")
                 \o (IF CanStop(audio)
                     THEN <<[kind |-> "halt", left |-> FadeOutSeconds, by |-> plays]>>
                     ELSE <<>>)
          /\ CanStop(audio) =>
               /\ audio'.sourceNode = audio.sourceNode
               /\ Future(audio'.events) = <<[kind |-> "ramp", v |-> 0, at |-> FadeOutSeconds]>>
          /\ ~CanStop(audio) => audio' = audio]_vars

C4_Witness ==
  /\ ~isPlaying /\ fading
  /\ Len(Pending(timeouts, "cancel")) = 1 /\ Len(Pending(timeouts, "halt")) = 1
  /\ utterance # 0

\* C5: at most one source is live, and it is the channel's current source: no
\* source other than the current one is started or connected
C5_OneLiveSource ==
  /\ Cardinality(LiveSources(audio)) <= 1
  /\ \A s \in audio.started \cup audio.connected : s = audio.sourceNode

C5_Witness ==
  /\ plays >= 2 /\ Cardinality(audio.destination) >= 2
  /\ LiveSources(audio) = {audio.sourceNode}
  /\ Len(Pending(timeouts, "halt")) = 1

\* C6: only the current source-gain pair is connected: no gain node of an earlier
\* start is still connected to the destination, no earlier source to its gain node
C6_NoLeakedConnection ==
  /\ \A g \in audio.destination : g = audio.gainNode
  /\ \A s \in audio.connected : s = audio.sourceNode

\* C7: after a stop with fade and no later command, the source is live as long as
\* the halt is pending (3 s), the gain is 0 when the halt is due, and once the
\* halt has run the source is stopped and disconnected and the gain stays 0
C7_FadeRunsThreeSeconds ==
  fading =>
    IF Pending(timeouts, "halt") # <<>>
    THEN /\ audio.sourceNode \in LiveSources(audio)
         /\ ChannelState = "FADING"
         /\ Head(Pending(timeouts, "halt")).left = 0 => audio.value = 0
    ELSE /\ audio.sourceNode = NoNode
         /\ LiveSources(audio) = {}
         /\ ChannelState = "STOPPED"
         /\ audio.value = 0

C7_Witness ==
  /\ fading /\ timeouts = <<>> /\ audio.value = 0 /\ audio.sourceNode = NoNode
  /\ envVolume # InitialEnvVolume

\* C8: a volume change that finds the channel neither STARTING nor PLAYING leaves
\* the gain automation as it was
C8_SetVolumeOnlyWhilePlaying ==
  [][(SetEnvVolume /\ ChannelState \notin {"STARTING", "PLAYING"}) => audio' = audio]_vars

\* C9: as long as no audio context runs (every play so far failed to initialise the
\* audio device or is still waiting for it), playback has not started
C9_FailedPlayDoesNotStart ==
  audio.audioContext # "running" => (~isPlaying /\ remainingTime = NULL)

\* C10: remainingTime is null or >= 0, and it changes from one number to another
\* only by a decrement of 1 while isPlaying is true
C10_CountdownDecrements ==
  /\ [](remainingTime # NULL => remainingTime[1] >= 0)
  /\ [][(remainingTime # NULL /\ remainingTime' # NULL /\ remainingTime' # remainingTime)
          => (remainingTime'[1] = remainingTime[1] - 1 /\ isPlaying)]_vars

C10_Witness == isPlaying /\ remainingTime = <<0>> /\ plays >= 2

\* C11: while the session is stopped the countdown is null and no interval exists,
\* so no tick can fire: every tick finds isPlaying true, the countdown leaves null
\* only by a play() that sets isPlaying, and stopping the timer when it is already
\* stopped changes nothing
C11_NoTickAfterStop ==
  /\ [](~isPlaying => (remainingTime = NULL /\ timerRef = NULL))
  /\ []((remainingTime = NULL /\ timerRef = NULL)
          => (stopTimer = remainingTime /\ TimerEffect(stopTimer, isPlaying, TRUE) = timerRef))
  /\ [][Tick => isPlaying]_vars
  /\ [][(remainingTime = NULL /\ remainingTime' # NULL)
          => (isPlaying' /\ (handlePlay \/ ResumeSettles))]_vars

C11_Witness ==
  /\ ~isPlaying /\ fading /\ plays >= 1 /\ timeouts = <<>>
  /\ remainingTime = NULL /\ timerRef = NULL

\* C12: the timer slider is disabled exactly while a countdown runs, so the
\* configured duration does not change while remainingTime is not null; and the
\* configured duration is always a multiple of 5 between 5 and 60
C12_DurationFixedWhileCounting ==
  /\ [](TimerInputDisabled <=> remainingTime # NULL)
  /\ [](/\ timerDuration % TimerStep = 0
        /\ MinTimerDuration <= timerDuration /\ timerDuration <= MaxTimerDuration)
  /\ [][remainingTime # NULL => timerDuration' = timerDuration]_vars

C12_Witness ==
  /\ timerDuration = MinTimerDuration /\ remainingTime # NULL /\ ticks > 0 /\ plays >= 2

\* C13: choosing another noise type leaves remainingTime and isPlaying as they
\* were; while playing, the previous source is stopped and disconnected and a new
\* source with a buffer of the chosen type is live, its gain at 0 with a ramp to
\* the current envVolume over 1 s; while not playing only selectedNoise changes
C13_NoiseTypeChange ==
  [][SetSelectedNoise =>
       /\ remainingTime' = remainingTime /\ isPlaying' = isPlaying
       /\ selectedNoise' # selectedNoise
       /\ isPlaying =>
            /\ audio.sourceNode \notin (audio'.started \cup audio'.connected)
            /\ audio'.sourceNode = plays + 1
            /\ LiveSources(audio') = {audio'.sourceNode}
            /\ audio'.buffer = selectedNoise'
            /\ audio'.value = 0
            /\ audio'.events = <<[kind |-> "set", v |-> 0, at |-> 0],
                                 [kind |-> "ramp", v |-> envVolume, at |-> FadeInSeconds]>>
       /\ ~isPlaying =>
            UNCHANGED <<envVolume, timerDuration, timerRef, storyText, isGenerating, audio,
                        timeouts, utterance, calls, plays, fading, ticks>>]_vars

C15_PlayStartsSession ==
  [][(~isPlaying /\ isPlaying' /\ audio'.audioContext = "running") =>
       /\ LiveSources(audio') = {audio'.sourceNode}
       /\ audio'.buffer = selectedNoise'
       /\ audio'.events = <<[kind |-> "set", v |-> 0, at |-> 0],
                            [kind |-> "ramp", v |-> envVolume', at |-> FadeInSeconds]>>
       /\ (utterance' > utterance) <=> (storyText' # "")
       /\ remainingTime' = <<timerDuration' * SecondsPerMinute>>]_vars

\* C16: when setVolume was the last command on a channel that is STARTING or
\* PLAYING, the stored envVolume is its target and one second later the gain has
\* settled at envVolume, whatever fade-in ramp was scheduled before
C16_VolumeChangeSettles ==
  [][(/\ Advance
      /\ ChannelState \in {"STARTING", "PLAYING"}
      /\ audio.sourceNode \in LiveSources(audio)
      /\ Past(audio.events) # <<>>
      /\ Past(audio.events)[1].kind = "target")
       => (Past(audio.events)[1].v = envVolume /\ audio'.value = envVolume)]_vars

\* C17: the promise of generateSleepStory is never rejected: when it settles,
\* handleGenerate stores a non-empty story and sets isGenerating false
C17_GenerateAlwaysResolves ==
  [][GenerateSettles => (storyText' # "" /\ ~isGenerating')]_vars

\* C18: the buffer createNoiseBuffer returns has 2 * sampleRate samples and each
\* of them lies within [-1.5, 1.5], for every noise type and every white input
C18_BufferLengthAndRange ==
  noise.pc = "done" =>
    /\ Len(noise.data) = 2 * noise.sampleRate
    /\ \A k \in 1..Len(noise.data) :
         /\ noise.data[k] >= 0 - (3 * Unit) \div 2
         /\ noise.data[k] <= (3 * Unit) \div 2

\* the pink sample written last and the white input it was computed from
PinkWritten == noise.type = "PINK_NOISE" /\ noise.pc \in {"second", "done"} /\ noise.i >= 1

\* C19 as stated: each pink sample is (b0+b1+b2+b3+b4+b5 + white*0.5362) * 0.11
\* for the filter states b0..b5 after the current white input, and nothing else
\* contributes
C19_PinkSampleSixStates ==
  PinkWritten =>
    noise.data[noise.i]
      = MulDiv(noise.b.b0 + noise.b.b1 + noise.b.b2 + noise.b.b3 + noise.b.b4 + noise.b.b5
               + WhiteTerm(noise.whites[noise.i], 5362000), 11, 100)

\* C19 amended: each pink sample is (b0+b1+b2+b3+b4+b5 + b6 + white*0.5362) * 0.11,
\* where b6 is 0.115926 times the previous white input (0 for the first sample) and
\* b0..b5 start at 0 and are carried from sample to sample by the recurrences
\* b0 = 0.99886*b0 + white*0.0555179, ..., b5 = -0.7616*b5 - white*0.0168980
C19_PinkSampleWithB6 ==
  /\ [](PinkWritten =>
          noise.data[noise.i]
            = MulDiv(noise.b.b0 + noise.b.b1 + noise.b.b2 + noise.b.b3 + noise.b.b4 + noise.b.b5
                     + (IF noise.i > 1 THEN WhiteTerm(noise.whites[noise.i - 1], 1159260) ELSE 0)
                     + WhiteTerm(noise.whites[noise.i], 5362000), 11, 100))
  /\ []((noise.type = "PINK_NOISE" /\ noise.pc = "second" /\ noise.i = 0) => noise.b = NoFilter)
  /\ [][(SecondLoop /\ noise.type = "PINK_NOISE") =>
          LET white == noise'.whites[noise'.i]
              b == noise.b
              c == noise'.b
          IN  /\ c.b0 = (b.b0 - MulDiv(b.b0, 114, 100000)) + WhiteTerm(white, 555179)
              /\ c.b1 = (b.b1 - MulDiv(b.b1, 668, 100000)) + WhiteTerm(white, 750759)
              /\ c.b2 = (b.b2 - MulDiv(b.b2, 31, 1000)) + WhiteTerm(white, 1538520)
              /\ c.b3 = (b.b3 - MulDiv(b.b3, 1335, 10000)) + WhiteTerm(white, 3104856)
              /\ c.b4 = MulDiv(b.b4, 55, 100) + WhiteTerm(white, 5329522)
              /\ c.b5 = (0 - MulDiv(b.b5, 7616, 10000)) - WhiteTerm(white, 168980)]_vars

C19_Witness ==
  /\ PinkWritten /\ noise.pc = "done" /\ noise.switches = MaxSwitches
  /\ noise.whites[noise.i - 1] # 0 /\ noise.whites[noise.i] # noise.whites[noise.i - 1]
  /\ noise.data[noise.i] # 0

\* C20: in every settled state isPlaying is true if and only if remainingTime is
\* not null
C20_PlayingIffCountdown ==
  isPlaying <=> remainingTime # NULL

C20_Witness ==
  /\ ~isPlaying /\ remainingTime = NULL /\ plays >= 1 /\ fading
  /\ Len(timeouts) = 2 /\ \A k \in 1..Len(timeouts) : timeouts[k].left = FadeOutSeconds

\* the handlePlay calls waiting for resume()
SuspendedPlays == SelectSeq(calls, LAMBDA c : c.kind = "handlePlay")

Quiescent ==
  /\ ~isPlaying /\ remainingTime = NULL /\ timerRef = NULL
  /\ LiveSources(audio) = {} /\ audio.sourceNode = NoNode
  /\ utterance = 0
  /\ timeouts = <<>>

\* C22: a session that was started and is left to itself eventually becomes
\* quiescent and stays so: isPlaying false, no countdown, no interval, no live
\* source, no utterance, no pending timeout
C22_SessionEndsQuiescent ==
  isPlaying ~> []Quiescent

C22_Witness ==
  /\ Quiescent /\ plays = 1 /\ fading /\ audio.value = 0 /\ storyText # ""
  /\ audio.gainNode # NoNode

====
